---- MODULE Spec2Model ----
(***************************************************************************)
(* The conversation subsystem of the Lost & Found platform: the Chat       *)
(* model (backend/models/Chat.js, kept as src/unnamed/part_002) and the    *)
(* Socket.io event handlers and the periodic cleanup of                    *)
(* src/backend/server.js.                                                  *)
(*                                                                         *)
(* A handler is an async function.  It is modelled as a task that moves    *)
(* through the handler's await points.  The handler's first action (OnX)   *)
(* is the store read (Chat.findById / Chat.findByPostAndUsers) and the     *)
(* code that runs on its result, up to the update that document.save()     *)
(* sends; OnXSave is the store applying (or rejecting) that update; and    *)
(* OnXEmit is the code after the last await (the broadcast).  Tasks of     *)
(* different events interleave at these points, as they do on Node's       *)
(* event loop.                                                             *)
(*                                                                         *)
(* document.save() is Mongoose's: it sends only the paths changed since    *)
(* the document was loaded ($set per path, $push for appended array        *)
(* elements), a $push increments the version key __v, and a $set below an  *)
(* array index is guarded by the __v the document was loaded with.         *)
(*                                                                         *)
(* Time is counted in inactivity windows: the unit of the clock and of     *)
(* every Date is the 7 days of autoCloseAt (7 * 24 * 60 * 60 * 1000 ms).   *)
(* Fields no handler reads (attachment, chatType, title, priority,         *)
(* notifications, metadata, joinedAt, createdAt/updatedAt) are left out.   *)
(***************************************************************************)
EXTENDS Integers, Sequences, FiniteSets, TLC

VARIABLES
  now,            \* the wall clock (Date.now())
  chats,          \* the Chat collection: sequence of documents, _id = index
  rooms,          \* rooms[s]: the chat ids whose room chat_<id> socket s is in
  tasks,          \* the handler invocations in flight
  nextMsgId,      \* source of message _ids (ObjectIds: unique)
  emitted,        \* what the latest step emitted: socket events, log lines
  received,       \* received[s]: the message ids of the new_message events s got
  connected       \* the sockets that are connected

vars == <<now, chats, rooms, tasks, nextMsgId, emitted, received, connected>>

----------------------------------------------------------------------------
(* Bounds of the model *)

MaxMsgs == 2
MaxChats == 2
MaxTime == 2

(* Program constants *)

AutoCloseWindow == 1
NoDate == -1

Null == "null"
Tombstone == "This message has been deleted"

Users == {"u1", "u2", "u3"}
Sockets == {"s1", "s2", "s3"}
Posts == {"p1"}

\* socket.user, set by authenticateSocket
UserOf(s) == CASE s = "s1" -> "u1" [] s = "s2" -> "u2" [] OTHER -> "u3"

----------------------------------------------------------------------------
(* The schemas *)

\* content: { trim: true }
Trim(c) == CASE c = " " -> "" [] c = " b" -> "b" [] OTHER -> c

\* content: { required: true } (maxlength is out of reach of the inputs)
ValidContent(c) == c # ""

NewMessage(id, senderId, content, messageType) ==
  [id |-> id, sender |-> senderId, content |-> Trim(content),
   messageType |-> messageType, isRead |-> FALSE, readAt |-> NoDate,
   isEdited |-> FALSE, editedAt |-> NoDate, originalContent |-> Null,
   isDeleted |-> FALSE, deletedAt |-> NoDate]

NewParticipant(u, t) == [user |-> u, lastSeen |-> t, isActive |-> TRUE]

NoLastMessage ==
  [content |-> Null, sender |-> Null, timestamp |-> NoDate, messageType |-> "text"]

\* new Chat({participants: [{user: a}, {user: b}], post: postId}) at time t
NewChat(postId, a, b, t) ==
  [post |-> postId,
   participants |-> <<NewParticipant(a, t), NewParticipant(b, t)>>,
   messages |-> <<>>,
   lastMessage |-> NoLastMessage,
   status |-> "active", isResolved |-> FALSE, resolvedAt |-> NoDate,
   resolvedBy |-> Null,
   lastActivity |-> t, autoCloseAt |-> t + AutoCloseWindow,
   v |-> 0]

\* this.messages.id(messageId): the index of the subdocument, 0 when absent
MsgIndex(doc, messageId) ==
  IF \E i \in DOMAIN doc.messages : doc.messages[i].id = messageId
  THEN CHOOSE i \in DOMAIN doc.messages : doc.messages[i].id = messageId
  ELSE 0

\* this.participants.find(p => p.user === userId): first match, 0 when absent
PartIndex(doc, userId) ==
  IF \E i \in DOMAIN doc.participants : doc.participants[i].user = userId
  THEN CHOOSE i \in DOMAIN doc.participants :
         /\ doc.participants[i].user = userId
         /\ \A j \in DOMAIN doc.participants :
              doc.participants[j].user = userId => i <= j
  ELSE 0

----------------------------------------------------------------------------
(* The methods of the Chat model, on a loaded document *)

AddMessageReopens(doc, id, senderId, content, messageType, t) ==
  [doc EXCEPT
     !.messages = Append(@, NewMessage(id, senderId, content, messageType)),
     !.lastMessage = [content |-> content, sender |-> senderId,
                      timestamp |-> t, messageType |-> messageType],
     !.lastActivity = t,
     !.autoCloseAt = t + AutoCloseWindow,
     !.status = "active"]

AddMessage(doc, id, senderId, content, messageType, t) ==
  [doc EXCEPT
     !.messages = Append(@, NewMessage(id, senderId, content, messageType)),
     !.lastMessage = [content |-> content, sender |-> senderId,
                      timestamp |-> t, messageType |-> messageType],
     !.lastActivity = t,
     !.autoCloseAt = t + AutoCloseWindow]

\* messageIds is [given |-> BOOLEAN, ids |-> set of message ids]; given = FALSE
\* is the call without ids (null)
MarkMessagesAsRead(doc, userId, messageIds, t) ==
  LET hit(m) == IF messageIds.given
                THEN m.id \in messageIds.ids /\ m.sender # userId
                ELSE ~m.isRead /\ m.sender # userId
      msgs == [i \in DOMAIN doc.messages |->
                 IF hit(doc.messages[i])
                 THEN [doc.messages[i] EXCEPT !.isRead = TRUE, !.readAt = t]
                 ELSE doc.messages[i]]
      p == PartIndex(doc, userId)
  IN [doc EXCEPT
        !.messages = msgs,
        !.participants = IF p = 0 THEN @
                         ELSE [@ EXCEPT ![p].lastSeen = t]]

\* The result of a method that may throw: err = "" when it returned
Threw(text, doc) == [err |-> text, doc |-> doc]
Returned(doc) == [err |-> "", doc |-> doc]

EditMessageNoKeep(doc, messageId, newContent, userId, t) ==
  LET i == MsgIndex(doc, messageId) IN
  IF i = 0 THEN Threw("Message not found", doc)
  ELSE IF doc.messages[i].sender # userId
       THEN Threw("Not authorized to edit this message", doc)
  ELSE IF doc.messages[i].isDeleted
       THEN Threw("Cannot edit deleted message", doc)
  ELSE Returned([doc EXCEPT
         !.messages[i].originalContent = doc.messages[i].content,
         !.messages[i].content = Trim(newContent),
         !.messages[i].isEdited = TRUE,
         !.messages[i].editedAt = t])

EditMessage(doc, messageId, newContent, userId, t) ==
  LET i == MsgIndex(doc, messageId) IN
  IF i = 0 THEN Threw("Message not found", doc)
  ELSE IF doc.messages[i].sender # userId
       THEN Threw("Not authorized to edit this message", doc)
  ELSE IF doc.messages[i].isDeleted
       THEN Threw("Cannot edit deleted message", doc)
  ELSE Returned([doc EXCEPT
         !.messages[i].originalContent =
            IF doc.messages[i].isEdited THEN @ ELSE doc.messages[i].content,
         !.messages[i].content = Trim(newContent),
         !.messages[i].isEdited = TRUE,
         !.messages[i].editedAt = t])

DeleteMessage(doc, messageId, userId, t) ==
  LET i == MsgIndex(doc, messageId) IN
  IF i = 0 THEN Threw("Message not found", doc)
  ELSE IF doc.messages[i].sender # userId
       THEN Threw("Not authorized to delete this message", doc)
  ELSE Returned([doc EXCEPT
         !.messages[i].isDeleted = TRUE,
         !.messages[i].deletedAt = t,
         !.messages[i].content = Tombstone])

\* push when no entry names userId, else reactivate the first that does
AddParticipantDoc(doc, userId, t) ==
  LET p == PartIndex(doc, userId) IN
  IF p = 0
  THEN [doc EXCEPT !.participants = Append(@, NewParticipant(userId, t))]
  ELSE [doc EXCEPT !.participants[p].isActive = TRUE]

\* deactivate the first entry that names userId, if any
RemoveParticipantDoc(doc, userId) ==
  LET p == PartIndex(doc, userId) IN
  IF p = 0 THEN doc ELSE [doc EXCEPT !.participants[p].isActive = FALSE]

\* closedBy = Null is the call without a principal
CloseChatDoc(doc, closedBy, t) ==
  [doc EXCEPT
     !.status = "closed",
     !.isResolved = TRUE,
     !.resolvedAt = t,
     !.resolvedBy = IF closedBy # Null THEN closedBy ELSE @]

GetUnreadCountAnySender(doc, userId) ==
  LET unread(m) == ~m.isRead /\ ~m.isDeleted
  IN Len(SelectSeq(doc.messages, unread))

\* this.messages.filter(...).length
GetUnreadCount(doc, userId) ==
  LET unread(m) == ~m.isRead /\ m.sender # userId /\ ~m.isDeleted
  IN Len(SelectSeq(doc.messages, unread))

IsListed(doc, userId) ==
  \E i \in DOMAIN doc.participants : doc.participants[i].user = userId

\* chat.participants.some(p => p.user === userId && p.isActive)
IsParticipant(doc, userId) ==
  \E i \in DOMAIN doc.participants :
     doc.participants[i].user = userId /\ doc.participants[i].isActive

----------------------------------------------------------------------------
(* document.save() *)

\* error.message of a rejected save()
ValidationError == "Chat validation failed"
VersionError == "No matching document found"

\* chatSchema.pre('save'): this.isModified('messages') => lastActivity = now
PreSave(old, new, t) ==
  IF new.messages # old.messages THEN [new EXCEPT !.lastActivity = t] ELSE new

\* validation of the modified message subdocuments (content is required)
ValidDoc(old, new) ==
  \A i \in DOMAIN new.messages :
     (i > Len(old.messages) \/ new.messages[i] # old.messages[i])
        => ValidContent(new.messages[i].content)

BlankMessage == NewMessage(0, Null, "", "text")
BlankParticipant == NewParticipant(Null, NoDate)
EmptyDoc == NewChat(Null, Null, Null, NoDate)

\* A document pair (as loaded, as changed) reduced to the modified paths:
\* every field the handler left alone is blanked on both sides
KeepOld(o, n, blank) == [f \in DOMAIN o |-> IF n[f] = o[f] THEN blank[f] ELSE o[f]]
KeepNew(o, n, blank) == [f \in DOMAIN o |-> IF n[f] = o[f] THEN blank[f] ELSE n[f]]

\* the update sets a field below an array index: guarded by the loaded __v
Positional(old, new) ==
  \/ \E i \in 1..Len(old.messages) : new.messages[i] # old.messages[i]
  \/ \E i \in 1..Len(old.participants) : new.participants[i] # old.participants[i]

\* the update pushes to an array: increments __v
Pushes(old, new) ==
  \/ Len(new.messages) > Len(old.messages)
  \/ Len(new.participants) > Len(old.participants)

\* The update save() sends for a document loaded as old and changed to new:
\* $set of the modified paths, $push of the appended elements, and the loaded
\* __v when a path below an array index is set
Delta(old, new) ==
  [old |-> [KeepOld(old, new, EmptyDoc) EXCEPT
              !.messages = [i \in 1..Len(old.messages) |->
                 KeepOld(old.messages[i], new.messages[i], BlankMessage)],
              !.participants = [i \in 1..Len(old.participants) |->
                 KeepOld(old.participants[i], new.participants[i], BlankParticipant)],
              !.v = IF Positional(old, new) THEN old.v ELSE 0],
   new |-> [KeepNew(old, new, EmptyDoc) EXCEPT
              !.messages = [i \in 1..Len(new.messages) |->
                 IF i <= Len(old.messages)
                 THEN KeepNew(old.messages[i], new.messages[i], BlankMessage)
                 ELSE new.messages[i]],
              !.participants = [i \in 1..Len(new.participants) |->
                 IF i <= Len(old.participants)
                 THEN KeepNew(old.participants[i], new.participants[i], BlankParticipant)
                 ELSE new.participants[i]],
              !.v = IF Positional(old, new) THEN old.v ELSE 0]]

NoDelta == [old |-> EmptyDoc, new |-> EmptyDoc]

\* save() up to the update it sends: the pre-save hook, the validation
Prepare(old, new, t) ==
  IF ~ValidDoc(old, new)
  THEN [ok |-> FALSE, why |-> ValidationError, delta |-> NoDelta]
  ELSE [ok |-> TRUE, why |-> "", delta |-> Delta(old, PreSave(old, new, t))]

\* a path is written only when the handler changed it since the load
Merge(c, o, n) == [f \in DOMAIN c |-> IF n[f] # o[f] THEN n[f] ELSE c[f]]

\* $set of the changed fields of the elements loaded, $push of the new ones
MergeSeq(c, o, n) ==
  [i \in 1..Len(c) |-> IF i <= Len(o) THEN Merge(c[i], o[i], n[i]) ELSE c[i]]
  \o SubSeq(n, Len(o) + 1, Len(n))

\* The whole document as the handler holds it, written over the stored one
UpdateOverwrite(cur, d) ==
  [ok |-> TRUE, why |-> "",
   doc |-> [Merge(cur, d.old, d.new) EXCEPT
              !.messages = [i \in 1..Len(d.new.messages) |->
                              IF i <= Len(d.old.messages) /\ i <= Len(cur.messages)
                              THEN Merge(cur.messages[i], d.old.messages[i],
                                         d.new.messages[i])
                              ELSE d.new.messages[i]],
              !.participants =
                 MergeSeq(cur.participants, d.old.participants, d.new.participants),
              !.v = cur.v]]

\* The store applies the update d to the stored document cur.  ok = FALSE:
\* no document matches the guarded __v (VersionError), nothing is written.
Update(cur, d) ==
  IF Positional(d.old, d.new) /\ cur.v # d.old.v
  THEN [ok |-> FALSE, why |-> VersionError, doc |-> cur]
  ELSE [ok |-> TRUE, why |-> "",
        doc |-> [Merge(cur, d.old, d.new) EXCEPT
                   !.messages =
                      MergeSeq(cur.messages, d.old.messages, d.new.messages),
                   !.participants =
                      MergeSeq(cur.participants, d.old.participants,
                               d.new.participants),
                   !.v = IF Pushes(d.old, d.new) THEN cur.v + 1 ELSE cur.v]]

----------------------------------------------------------------------------
(* The statics of the Chat model, on the collection *)

UsersOf(doc) == {doc.participants[i].user : i \in DOMAIN doc.participants}

\* { post, 'participants.user': { $all: userIds }, status: { $ne: 'archived' } }
Matches(doc, postId, userIds) ==
  /\ doc.post = postId
  /\ userIds \subseteq UsersOf(doc)
  /\ doc.status # "archived"

\* participants equal to [self, other] in that order
FindByPostAndUsersOrdered(coll, postId, self, other) ==
  LET hit == {c \in DOMAIN coll :
                /\ coll[c].post = postId
                /\ coll[c].participants[1].user = self
                /\ coll[c].participants[2].user = other
                /\ coll[c].status # "archived"}
  IN IF hit = {} THEN 0 ELSE CHOOSE c \in hit : \A d \in hit : c <= d

\* findOne: the first matching document, 0 when there is none
FindByPostAndUsers(coll, postId, self, other) ==
  LET hit == {c \in DOMAIN coll : Matches(coll[c], postId, {self, other})}
  IN IF hit = {} THEN 0 ELSE CHOOSE c \in hit : \A d \in hit : c <= d

\* { status: 'active', autoCloseAt: { $lt: new Date() } }
FindExpired(coll, t) ==
  {c \in DOMAIN coll : coll[c].status = "active" /\ coll[c].autoCloseAt < t}

\* .sort({ 'lastMessage.timestamp': -1 }) of the chats ids of coll: latest
\* first, a chat without a last message (null) after the others; chats with
\* equal timestamps are taken in the order of the collection
RECURSIVE SortByLastMessage(_, _)
SortByLastMessage(coll, ids) ==
  IF ids = {} THEN <<>>
  ELSE LET first == CHOOSE c \in ids : \A d \in ids :
                      \/ coll[c].lastMessage.timestamp > coll[d].lastMessage.timestamp
                      \/ /\ coll[c].lastMessage.timestamp = coll[d].lastMessage.timestamp
                         /\ c <= d
       IN <<first>> \o SortByLastMessage(coll, ids \ {first})

\* { 'participants.user': userId, 'participants.isActive': true, status }:
\* each condition on a field of the participants array holds when some
\* element satisfies it, not necessarily the same element for both
FindUserChats(coll, userId, status) ==
  SortByLastMessage(coll,
    {c \in DOMAIN coll :
       /\ \E i \in DOMAIN coll[c].participants : coll[c].participants[i].user = userId
       /\ \E i \in DOMAIN coll[c].participants : coll[c].participants[i].isActive
       /\ coll[c].status = status})

----------------------------------------------------------------------------
(* Rooms and events *)

\* io.to(`chat_${chatId}`): every socket in the room
InRoom(c) == {s \in Sockets : c \in rooms[s]}

\* socket.to(`chat_${chatId}`): the room without the emitting socket
OthersInRoom(s, c) == InRoom(c) \ {s}

\* io.to(`user_${id}`): the personal room every socket of the user joined on
\* connection and is in while it is connected
UserRoom(u) == {s \in connected : UserOf(s) = u}

\* socket.join(`chat_${c}`); on a socket that has disconnected it does nothing
\* (socket.io replaces join of a closed socket by a no-op)
Join(s, c) == IF s \in connected THEN [rooms EXCEPT ![s] = @ \cup {c}] ELSE rooms

Event(ev, to, c, m, text) ==
  [ev |-> ev, to |-> to, chat |-> c, msg |-> m, text |-> text]

----------------------------------------------------------------------------
(* Handler invocations *)

NoIds == [given |-> FALSE, ids |-> {}]

\* a handler waiting for the store to apply the update it sent
Task(s, op, c, d) ==
  [sock |-> s, op |-> op, stage |-> "sent", chat |-> c, delta |-> d,
   post |-> Null, other |-> Null, text |-> "", mid |-> 0, ids |-> NoIds,
   msg |-> 0]

\* the step emits nothing
Quiet == emitted' = <<>>

ErrorToRoom(s, c, text) ==
  emitted' = <<Event("error", InRoom(c) \cup {s}, c, 0, text)>>

\* socket.emit('error', { message }) and return
Error(s, c, text) == emitted' = <<Event("error", {s}, c, 0, text)>>

FailSilent(t, text) ==
  /\ Quiet
  /\ tasks' = tasks \ {t}

\* the store rejected the update: the catch block
Fail(t, text) ==
  /\ Error(t.sock, t.chat, text)
  /\ tasks' = tasks \ {t}

\* the store applied the update, the handler is to resume
Saved(t) == tasks' = (tasks \ {t}) \cup {[t EXCEPT !.stage = "saved", !.delta = NoDelta]}

\* The step of a handler in which the store applies the update of task t
Apply(t, failText) ==
  LET r == Update(chats[t.chat], t.delta) IN
  IF r.ok
  THEN /\ chats' = [chats EXCEPT ![t.chat] = r.doc]
       /\ Saved(t)
       /\ Quiet
  ELSE /\ Fail(t, IF failText = "" THEN r.why ELSE failText)
       /\ UNCHANGED chats

----------------------------------------------------------------------------
(* io.on('connection') and socket.on('disconnect') *)

\* a client connects as socket s: the socket is in its user's personal room
\* and in no chat room
OnConnection(s) ==
  /\ s \notin connected
  /\ connected' = connected \cup {s}
  /\ rooms' = [rooms EXCEPT ![s] = {}]
  /\ Quiet
  /\ UNCHANGED <<now, chats, tasks, nextMsgId, received>>

OnDisconnectKeepsRooms(s) ==
  /\ s \in connected
  /\ connected' = connected \ {s}
  /\ Quiet
  /\ UNCHANGED <<now, chats, rooms, tasks, nextMsgId, received>>

\* socket s closes: socket.io takes it out of every room (leaveAll) before it
\* calls the 'disconnect' listener, which updates User.lastActive only; the
\* handlers of s that are in flight go on
OnDisconnect(s) ==
  /\ s \in connected
  /\ connected' = connected \ {s}
  /\ rooms' = [rooms EXCEPT ![s] = {}]
  /\ Quiet
  /\ UNCHANGED <<now, chats, tasks, nextMsgId, received>>

----------------------------------------------------------------------------
(* socket.on('join_chat') *)

OnJoin(s, c) ==
  /\ LET user == UserOf(s)
         p == Prepare(chats[c], MarkMessagesAsRead(chats[c], user, NoIds, now), now)
     IN IF c \notin DOMAIN chats
        THEN Error(s, c, "Chat not found") /\ UNCHANGED <<rooms, tasks>>
        ELSE IF ~IsParticipant(chats[c], user)
        THEN Error(s, c, "Not authorized to join this chat")
             /\ UNCHANGED <<rooms, tasks>>
        ELSE /\ rooms' = Join(s, c)
             /\ IF p.ok
                THEN /\ tasks' = tasks \cup {Task(s, "join", c, p.delta)}
                     /\ Quiet
                ELSE Error(s, c, "Failed to join chat") /\ UNCHANGED tasks
  /\ UNCHANGED <<now, chats, nextMsgId, received, connected>>

OnJoinSave(t) ==
  /\ t \in tasks /\ t.op = "join" /\ t.stage = "sent"
  /\ Apply(t, "Failed to join chat")
  /\ UNCHANGED <<now, rooms, nextMsgId, received, connected>>

OnJoinEmit(t) ==
  /\ t \in tasks /\ t.op = "join" /\ t.stage = "saved"
  /\ emitted' = <<Event("user_online", OthersInRoom(t.sock, t.chat), t.chat, 0,
                        UserOf(t.sock))>>
  /\ tasks' = tasks \ {t}
  /\ UNCHANGED <<now, chats, rooms, nextMsgId, received, connected>>

----------------------------------------------------------------------------
(* socket.on('leave_chat') *)

OnLeave(s, c) ==
  /\ rooms' = [rooms EXCEPT ![s] = @ \ {c}]
  /\ emitted' = <<Event("user_offline", InRoom(c) \ {s}, c, 0, UserOf(s))>>
  /\ UNCHANGED <<now, chats, tasks, nextMsgId, received, connected>>

----------------------------------------------------------------------------
(* socket.on('typing') *)

\* (the event carries the user and isTyping; the user is kept)
OnTyping(s, c, isTyping) ==
  /\ emitted' = <<Event("user_typing", OthersInRoom(s, c), c, 0, UserOf(s))>>
  /\ UNCHANGED <<now, chats, rooms, tasks, nextMsgId, received, connected>>

----------------------------------------------------------------------------
(* socket.on('send_message') *)

OnSendNoCheck(s, c, content, messageType) ==
  /\ LET user == UserOf(s)
         p == Prepare(chats[c],
                      AddMessage(chats[c], nextMsgId, user, content, messageType, now),
                      now)
     IN IF c \notin DOMAIN chats
        THEN Error(s, c, "Chat not found") /\ UNCHANGED <<tasks, nextMsgId>>
        ELSE IF ~p.ok
        THEN Error(s, c, "Failed to send message") /\ UNCHANGED <<tasks, nextMsgId>>
        ELSE /\ tasks' = tasks \cup {[Task(s, "send", c, p.delta) EXCEPT
                                        !.msg = nextMsgId]}
             /\ nextMsgId' = nextMsgId + 1
             /\ Quiet
  /\ UNCHANGED <<now, chats, rooms, received, connected>>

OnSend(s, c, content, messageType) ==
  /\ LET user == UserOf(s)
         p == Prepare(chats[c],
                      AddMessage(chats[c], nextMsgId, user, content, messageType, now),
                      now)
     IN IF c \notin DOMAIN chats
        THEN Error(s, c, "Chat not found") /\ UNCHANGED <<tasks, nextMsgId>>
        ELSE IF ~IsParticipant(chats[c], user)
        THEN Error(s, c, "Not authorized to send messages in this chat")
             /\ UNCHANGED <<tasks, nextMsgId>>
        ELSE IF ~p.ok
        THEN Error(s, c, "Failed to send message") /\ UNCHANGED <<tasks, nextMsgId>>
        ELSE /\ tasks' = tasks \cup {[Task(s, "send", c, p.delta) EXCEPT
                                        !.msg = nextMsgId]}
             /\ nextMsgId' = nextMsgId + 1
             /\ Quiet
  /\ UNCHANGED <<now, chats, rooms, received, connected>>

OnSendSave(t) ==
  /\ t \in tasks /\ t.op = "send" /\ t.stage = "sent"
  /\ Apply(t, "Failed to send message")
  /\ UNCHANGED <<now, rooms, nextMsgId, received, connected>>

NewMessageToOthers(t) == OthersInRoom(t.sock, t.chat)

\* io.to(`chat_${chatId}`).emit('new_message', ...)
NewMessageTo(t) == InRoom(t.chat)

OnSendEmitEarly(t) ==
  /\ t \in tasks /\ t.op = "send"
  /\ emitted' = <<Event("new_message", NewMessageTo(t), t.chat, t.msg, "")>>
  /\ received' = [s \in Sockets |->
                    IF s \in NewMessageTo(t) THEN Append(received[s], t.msg)
                    ELSE received[s]]
  /\ tasks' = tasks \ {t}
  /\ UNCHANGED <<now, chats, rooms, nextMsgId, connected>>

\* after newMessage.populate(...)
OnSendEmit(t) ==
  /\ t \in tasks /\ t.op = "send" /\ t.stage = "saved"
  /\ emitted' = <<Event("new_message", NewMessageTo(t), t.chat, t.msg, "")>>
  /\ received' = [s \in Sockets |->
                    IF s \in NewMessageTo(t) THEN Append(received[s], t.msg)
                    ELSE received[s]]
  /\ tasks' = tasks \ {t}
  /\ UNCHANGED <<now, chats, rooms, nextMsgId, connected>>

----------------------------------------------------------------------------
(* socket.on('edit_message') *)

OnEdit(s, c, messageId, newContent) ==
  /\ LET m == EditMessage(chats[c], messageId, newContent, UserOf(s), now)
         p == Prepare(chats[c], m.doc, now)
     IN IF c \notin DOMAIN chats
        THEN Error(s, c, "Chat not found") /\ UNCHANGED tasks
        ELSE IF m.err # ""
        THEN Error(s, c, m.err) /\ UNCHANGED tasks
        ELSE IF ~p.ok
        THEN Error(s, c, p.why) /\ UNCHANGED tasks
        ELSE /\ tasks' = tasks \cup {[Task(s, "edit", c, p.delta) EXCEPT
                                        !.mid = messageId, !.text = newContent]}
             /\ Quiet
  /\ UNCHANGED <<now, chats, rooms, nextMsgId, received, connected>>

OnEditSave(t) ==
  /\ t \in tasks /\ t.op = "edit" /\ t.stage = "sent"
  /\ Apply(t, "")
  /\ UNCHANGED <<now, rooms, nextMsgId, received, connected>>

OnEditEmit(t) ==
  /\ t \in tasks /\ t.op = "edit" /\ t.stage = "saved"
  /\ emitted' = <<Event("message_edited", InRoom(t.chat), t.chat, t.mid, t.text)>>
  /\ tasks' = tasks \ {t}
  /\ UNCHANGED <<now, chats, rooms, nextMsgId, received, connected>>

----------------------------------------------------------------------------
(* socket.on('delete_message') *)

OnDelete(s, c, messageId) ==
  /\ LET m == DeleteMessage(chats[c], messageId, UserOf(s), now)
         p == Prepare(chats[c], m.doc, now)
     IN IF c \notin DOMAIN chats
        THEN Error(s, c, "Chat not found") /\ UNCHANGED tasks
        ELSE IF m.err # ""
        THEN Error(s, c, m.err) /\ UNCHANGED tasks
        ELSE IF ~p.ok
        THEN Error(s, c, p.why) /\ UNCHANGED tasks
        ELSE /\ tasks' = tasks \cup {[Task(s, "delete", c, p.delta) EXCEPT
                                        !.mid = messageId]}
             /\ Quiet
  /\ UNCHANGED <<now, chats, rooms, nextMsgId, received, connected>>

OnDeleteSave(t) ==
  /\ t \in tasks /\ t.op = "delete" /\ t.stage = "sent"
  /\ Apply(t, "")
  /\ UNCHANGED <<now, rooms, nextMsgId, received, connected>>

OnDeleteEmit(t) ==
  /\ t \in tasks /\ t.op = "delete" /\ t.stage = "saved"
  /\ emitted' = <<Event("message_deleted", InRoom(t.chat), t.chat, t.mid, "")>>
  /\ tasks' = tasks \ {t}
  /\ UNCHANGED <<now, chats, rooms, nextMsgId, received, connected>>

----------------------------------------------------------------------------
(* socket.on('mark_read') *)

OnRead(s, c, messageIds) ==
  /\ LET p == Prepare(chats[c],
                      MarkMessagesAsRead(chats[c], UserOf(s), messageIds, now), now)
     IN IF c \notin DOMAIN chats
        THEN Error(s, c, "Chat not found") /\ UNCHANGED tasks
        ELSE IF ~p.ok
        THEN Error(s, c, "Failed to mark messages as read") /\ UNCHANGED tasks
        ELSE /\ tasks' = tasks \cup {[Task(s, "read", c, p.delta) EXCEPT
                                        !.ids = messageIds]}
             /\ Quiet
  /\ UNCHANGED <<now, chats, rooms, nextMsgId, received, connected>>

OnReadSave(t) ==
  /\ t \in tasks /\ t.op = "read" /\ t.stage = "sent"
  /\ Apply(t, "Failed to mark messages as read")
  /\ UNCHANGED <<now, rooms, nextMsgId, received, connected>>

OnReadEmit(t) ==
  /\ t \in tasks /\ t.op = "read" /\ t.stage = "saved"
  /\ emitted' = <<Event("messages_read", OthersInRoom(t.sock, t.chat), t.chat, 0,
                        UserOf(t.sock))>>
  /\ tasks' = tasks \ {t}
  /\ UNCHANGED <<now, chats, rooms, nextMsgId, received, connected>>

----------------------------------------------------------------------------
(* socket.on('create_chat') *)

\* initialMessage = "" is the event without one (falsy)
OnCreate(s, postId, participantId, initialMessage) ==
  /\ LET c == FindByPostAndUsers(chats, postId, UserOf(s), participantId)
         doc == NewChat(postId, UserOf(s), participantId, now)
     IN IF c # 0
        THEN /\ emitted' = <<Event("chat_created", {s}, c, 0, "")>>
             /\ UNCHANGED tasks
        ELSE /\ tasks' = tasks \cup
                  {[Task(s, "create", 0, [old |-> EmptyDoc, new |-> doc]) EXCEPT
                      !.post = postId, !.other = participantId,
                      !.text = initialMessage]}
             /\ Quiet
  /\ UNCHANGED <<now, chats, rooms, nextMsgId, received, connected>>

\* the store inserts the chat; then await chat.addMessage(user, initialMessage)
OnCreateInsert(t) ==
  /\ t \in tasks /\ t.op = "create" /\ t.stage = "sent"
  /\ LET doc == t.delta.new
         p == Prepare(doc, AddMessage(doc, nextMsgId, UserOf(t.sock), t.text,
                                      "text", now), now)
     IN /\ chats' = Append(chats, doc)
        /\ IF t.text = ""
           THEN /\ tasks' = (tasks \ {t}) \cup
                      {[t EXCEPT !.chat = Len(chats) + 1, !.stage = "saved",
                                 !.delta = NoDelta]}
                /\ Quiet /\ UNCHANGED nextMsgId
           ELSE IF ~p.ok
           THEN /\ Error(t.sock, Len(chats) + 1, "Failed to create chat")
                /\ tasks' = tasks \ {t}
                /\ UNCHANGED nextMsgId
           ELSE /\ tasks' = (tasks \ {t}) \cup
                      {[t EXCEPT !.chat = Len(chats) + 1, !.stage = "initial",
                                 !.delta = p.delta, !.msg = nextMsgId]}
                /\ nextMsgId' = nextMsgId + 1
                /\ Quiet
  /\ UNCHANGED <<now, rooms, received, connected>>

\* the store applies the initial message
OnCreateInitial(t) ==
  /\ t \in tasks /\ t.op = "create" /\ t.stage = "initial"
  /\ Apply(t, "Failed to create chat")
  /\ UNCHANGED <<now, rooms, nextMsgId, received, connected>>

\* after the populates: socket.join, new_chat to the other user, chat_created
OnCreateEmit(t) ==
  /\ t \in tasks /\ t.op = "create" /\ t.stage = "saved"
  /\ rooms' = Join(t.sock, t.chat)
  /\ emitted' = <<Event("new_chat", UserRoom(t.other), t.chat, 0, ""),
                  Event("chat_created", {t.sock}, t.chat, 0, "")>>
  /\ tasks' = tasks \ {t}
  /\ UNCHANGED <<now, chats, nextMsgId, received, connected>>

----------------------------------------------------------------------------
(* The store's close, the sweeper and the clock *)

\* chat.closeChat(closedBy) on the stored chat c
CloseChat(c, closedBy) ==
  /\ c \in DOMAIN chats
  /\ chats' = [chats EXCEPT
       ![c] = Update(chats[c],
                     Prepare(chats[c], CloseChatDoc(chats[c], closedBy, now),
                             now).delta).doc]
  /\ Quiet
  /\ UNCHANGED <<now, rooms, tasks, nextMsgId, received, connected>>

\* chat.addParticipant(userId) on the stored chat c
AddParticipant(c, userId) ==
  /\ c \in DOMAIN chats
  /\ chats' = [chats EXCEPT
       ![c] = Update(chats[c],
                     Prepare(chats[c], AddParticipantDoc(chats[c], userId, now),
                             now).delta).doc]
  /\ Quiet
  /\ UNCHANGED <<now, rooms, tasks, nextMsgId, received, connected>>

\* chat.removeParticipant(userId) on the stored chat c
RemoveParticipant(c, userId) ==
  /\ c \in DOMAIN chats
  /\ chats' = [chats EXCEPT
       ![c] = Update(chats[c],
                     Prepare(chats[c], RemoveParticipantDoc(chats[c], userId),
                             now).delta).doc]
  /\ Quiet
  /\ UNCHANGED <<now, rooms, tasks, nextMsgId, received, connected>>

\* console.error('Cleanup error:', error)
CleanupError == Event("Cleanup error:", {}, 0, 0, "Post is not defined")

\* cleanupExpiredContent: its first statement, Post.findExpired(), throws a
\* ReferenceError (server.js never declares Post), the catch logs
\* 'Cleanup error:' and the run ends before Chat.findExpired() is called
CleanupExpiredContent ==
  /\ emitted' = <<CleanupError>>
  /\ UNCHANGED <<now, chats, rooms, tasks, nextMsgId, received, connected>>

\* time passes
Tick ==
  /\ now' = now + 1
  /\ Quiet
  /\ UNCHANGED <<chats, rooms, tasks, nextMsgId, received, connected>>

----------------------------------------------------------------------------
(* Specifications *)

\* The inputs the events are drawn from
Contents == {"a"}
NewContents == {"b", "c"}
MessageIds == 1..MaxMsgs
Participants == {"s1", "s2"}

\* socket s has no handler in flight
Idle(s) == \A t \in tasks : t.sock # s

\* Nothing stored, nobody joined
InitEmpty ==
  /\ now = 0
  /\ chats = <<>>
  /\ rooms = [s \in Sockets |-> {}]
  /\ tasks = {}
  /\ nextMsgId = 1
  /\ emitted = <<>>
  /\ received = [s \in Sockets |-> <<>>]
  /\ connected = Sockets

\* The chat of u1 and u2 about p1, made by s1's create_chat and joined by s2
Init ==
  /\ now = 0
  /\ chats = <<NewChat("p1", "u1", "u2", 0)>>
  /\ rooms = [s \in Sockets |-> IF s \in Participants THEN {1} ELSE {}]
  /\ tasks = {}
  /\ nextMsgId = 1
  /\ emitted = <<>>
  /\ received = [s \in Sockets |-> <<>>]
  /\ connected = Sockets

\* a send arrives while message ids are left
Sends(s, c) ==
  /\ nextMsgId <= MaxMsgs
  /\ \E content \in Contents : OnSend(s, c, content, "text")

\* Closing and sending, events one at a time: each handler completes before
\* the next event arrives
NextClose ==
  \/ tasks = {} /\ \E s \in Participants : Sends(s, 1)
  \/ \E t \in tasks : OnSendSave(t)
  \/ \E t \in tasks : OnSendEmit(t)
  \/ tasks = {} /\ \E by \in {Null, "u1"} : CloseChat(1, by)
  \/ tasks = {} /\ CleanupExpiredContent
  \/ now < MaxTime /\ Tick

SpecClose == Init /\ [][NextClose]_vars

\* Editing and deleting, events one at a time, the clock stopped
NextEdit ==
  \/ tasks = {} /\ \E s \in Sockets, c \in {1, 2} : Sends(s, c)
  \/ tasks = {} /\ \E s \in Sockets, c \in {1, 2}, m \in MessageIds,
                      content \in NewContents : OnEdit(s, c, m, content)
  \/ tasks = {} /\ \E s \in Sockets, c \in {1, 2}, m \in MessageIds :
                      OnDelete(s, c, m)
  \/ \E t \in tasks : OnSendSave(t)
  \/ \E t \in tasks : OnSendEmit(t)
  \/ \E t \in tasks : OnEditSave(t)
  \/ \E t \in tasks : OnEditEmit(t)
  \/ \E t \in tasks : OnDeleteSave(t)
  \/ \E t \in tasks : OnDeleteEmit(t)

SpecEdit == Init /\ [][NextEdit]_vars

\* Deleting as time passes, events one at a time
NextDelete ==
  \/ tasks = {} /\ \E s \in Participants : Sends(s, 1)
  \/ tasks = {} /\ \E s \in Participants, m \in MessageIds : OnDelete(s, 1, m)
  \/ \E t \in tasks : OnSendSave(t)
  \/ \E t \in tasks : OnSendEmit(t)
  \/ \E t \in tasks : OnDeleteSave(t)
  \/ \E t \in tasks : OnDeleteEmit(t)
  \/ now < MaxTime /\ Tick

SpecDelete == Init /\ [][NextDelete]_vars

\* Joining and sending, the handlers of the two participants interleaving at
\* their await points
NextRace ==
  \/ \E s \in Participants : Idle(s) /\ OnJoin(s, 1)
  \/ \E s \in Participants : Idle(s) /\ Sends(s, 1)
  \/ \E t \in tasks : OnJoinSave(t)
  \/ \E t \in tasks : OnJoinEmit(t)
  \/ \E t \in tasks : OnSendSave(t)
  \/ \E t \in tasks : OnSendEmit(t)

SpecRace == Init /\ [][NextRace]_vars

\* Every operation on the chat interleaving: s1 sends, edits and deletes while
\* s2 sends, joins and marks read, the chat is closed, and the sweeper (which
\* changes no document) runs between handlers
NextLedger ==
  \/ \E s \in Participants : Idle(s) /\ Sends(s, 1)
  \/ Idle("s1") /\ \E m \in MessageIds : OnEdit("s1", 1, m, "b")
  \/ Idle("s1") /\ \E m \in MessageIds : OnDelete("s1", 1, m)
  \/ Idle("s2") /\ OnJoin("s2", 1)
  \/ Idle("s2") /\ OnRead("s2", 1, NoIds)
  \/ \E t \in tasks : OnJoinSave(t)
  \/ \E t \in tasks : OnJoinEmit(t)
  \/ \E t \in tasks : OnSendSave(t)
  \/ \E t \in tasks : OnSendEmit(t)
  \/ \E t \in tasks : OnEditSave(t)
  \/ \E t \in tasks : OnEditEmit(t)
  \/ \E t \in tasks : OnDeleteSave(t)
  \/ \E t \in tasks : OnDeleteEmit(t)
  \/ \E t \in tasks : OnReadSave(t)
  \/ \E t \in tasks : OnReadEmit(t)
  \/ CloseChat(1, Null)
  \/ tasks = {} /\ CleanupExpiredContent

SpecLedger == Init /\ [][NextLedger]_vars

\* a create_chat arrives while the store has room
Creates(s) ==
  /\ Len(chats) + Cardinality({t \in tasks : t.op = "create" /\ t.stage = "sent"})
       < MaxChats
  /\ \E u \in Users, initial \in {"", "a"} :
       /\ initial # "" => nextMsgId <= MaxMsgs
       /\ OnCreate(s, "p1", u, initial)

\* Chats created one at a time, participants of the first added and removed
NextMembers ==
  \/ tasks = {} /\ \E s \in Participants : Creates(s)
  \/ \E t \in tasks : OnCreateInsert(t)
  \/ \E t \in tasks : OnCreateInitial(t)
  \/ \E t \in tasks : OnCreateEmit(t)
  \/ tasks = {} /\ \E u \in Users : AddParticipant(1, u)
  \/ tasks = {} /\ \E u \in Users : RemoveParticipant(1, u)

SpecMembers == InitEmpty /\ [][NextMembers]_vars

\* Every operation of the core on one chat: the handlers run one at a time
\* (s1 sends, edits and deletes its first message, s2 reads, joins and
\* leaves), while closeChat, addParticipant, removeParticipant and the sweeper
\* also run between the steps of a handler
NextStatus ==
  \/ tasks = {} /\ Sends("s1", 1)
  \/ tasks = {} /\ OnEdit("s1", 1, 1, "b")
  \/ tasks = {} /\ OnDelete("s1", 1, 1)
  \/ tasks = {} /\ OnRead("s2", 1, NoIds)
  \/ tasks = {} /\ OnJoin("s2", 1)
  \/ tasks = {} /\ OnLeave("s2", 1)
  \/ tasks = {} /\ Len(chats) < MaxChats /\ OnCreate("s1", "p1", "u3", "")
  \/ \E t \in tasks : OnSendSave(t)
  \/ \E t \in tasks : OnSendEmit(t)
  \/ \E t \in tasks : OnEditSave(t)
  \/ \E t \in tasks : OnEditEmit(t)
  \/ \E t \in tasks : OnDeleteSave(t)
  \/ \E t \in tasks : OnDeleteEmit(t)
  \/ \E t \in tasks : OnReadSave(t)
  \/ \E t \in tasks : OnReadEmit(t)
  \/ \E t \in tasks : OnJoinSave(t)
  \/ \E t \in tasks : OnJoinEmit(t)
  \/ \E t \in tasks : OnCreateInsert(t)
  \/ \E t \in tasks : OnCreateEmit(t)
  \/ AddParticipant(1, "u3")
  \/ RemoveParticipant(1, "u2")
  \/ CloseChat(1, Null)
  \/ CleanupExpiredContent

SpecStatus == Init /\ [][NextStatus]_vars

\* Joining, leaving and sending while u2 is removed and added again, events
\* one at a time; s3 is the socket of u3, who is no participant
NextAccess ==
  \/ tasks = {} /\ \E s \in Sockets : OnJoin(s, 1)
  \/ tasks = {} /\ \E s \in Sockets : OnLeave(s, 1)
  \/ tasks = {} /\ \E s \in Sockets : Sends(s, 1)
  \/ \E t \in tasks : OnJoinSave(t)
  \/ \E t \in tasks : OnJoinEmit(t)
  \/ \E t \in tasks : OnSendSave(t)
  \/ \E t \in tasks : OnSendEmit(t)
  \/ tasks = {} /\ RemoveParticipant(1, "u2")
  \/ tasks = {} /\ AddParticipant(1, "u2")

SpecAccess == Init /\ [][NextAccess]_vars

\* s2 leaves and joins again while the sends of s1 are in flight
NextJoin ==
  \/ Idle("s1") /\ Sends("s1", 1)
  \/ Idle("s2") /\ 1 \notin rooms["s2"] /\ OnJoin("s2", 1)
  \/ Idle("s2") /\ 1 \in rooms["s2"] /\ OnLeave("s2", 1)
  \/ \E t \in tasks : OnSendSave(t)
  \/ \E t \in tasks : OnSendEmit(t)
  \/ \E t \in tasks : OnJoinSave(t)
  \/ \E t \in tasks : OnJoinEmit(t)

SpecJoin == Init /\ [][NextJoin]_vars

\* The events of one socket: socket.io calls the handler of each event as it
\* arrives, without waiting for the promise of an earlier handler; s2 joins
NextPipeline ==
  \/ Sends("s1", 1)
  \/ Idle("s2") /\ OnJoin("s2", 1)
  \/ \E t \in tasks : OnSendSave(t)
  \/ \E t \in tasks : OnSendEmit(t)
  \/ \E t \in tasks : OnJoinSave(t)
  \/ \E t \in tasks : OnJoinEmit(t)

SpecPipeline == Init /\ [][NextPipeline]_vars

\* content as a client may send it: with surrounding whitespace
PaddedContents == {"a", " b"}

\* Sends of the two participants interleaving; time passes between events
NextSend ==
  \/ \E s \in Participants :
       /\ Idle(s)
       /\ nextMsgId <= MaxMsgs
       /\ \E content \in PaddedContents : OnSend(s, 1, content, "text")
  \/ \E t \in tasks : OnSendSave(t)
  \/ \E t \in tasks : OnSendEmit(t)
  \/ tasks = {} /\ now < MaxTime /\ Tick

SpecSend == Init /\ [][NextSend]_vars

\* Reading, events one at a time: the participants send, delete and mark read
NextRead ==
  \/ tasks = {} /\ \E s \in Participants : Sends(s, 1)
  \/ tasks = {} /\ \E s \in Participants, m \in MessageIds : OnDelete(s, 1, m)
  \/ tasks = {} /\ \E s \in Participants : OnRead(s, 1, NoIds)
  \/ tasks = {} /\ \E s \in Participants, m \in MessageIds :
                      OnRead(s, 1, [given |-> TRUE, ids |-> {m}])
  \/ \E t \in tasks : OnSendSave(t)
  \/ \E t \in tasks : OnSendEmit(t)
  \/ \E t \in tasks : OnDeleteSave(t)
  \/ \E t \in tasks : OnDeleteEmit(t)
  \/ \E t \in tasks : OnReadSave(t)
  \/ \E t \in tasks : OnReadEmit(t)

SpecRead == Init /\ [][NextRead]_vars

\* create_chat events of different sockets interleaving
NextCreate ==
  \/ \E s \in Participants : Idle(s) /\ Creates(s)
  \/ \E t \in tasks : OnCreateInsert(t)
  \/ \E t \in tasks : OnCreateInitial(t)
  \/ \E t \in tasks : OnCreateEmit(t)

SpecCreate == InitEmpty /\ [][NextCreate]_vars

\* create_chat events one at a time
NextCreateSeq ==
  \/ tasks = {} /\ \E s \in Participants : Creates(s)
  \/ \E t \in tasks : OnCreateInsert(t)
  \/ \E t \in tasks : OnCreateInitial(t)
  \/ \E t \in tasks : OnCreateEmit(t)

SpecCreateSeq == InitEmpty /\ [][NextCreateSeq]_vars

\* s2 disconnects and connects again while s1 sends; a join_chat of s2 may
\* still be waiting for Chat.findById when s2 disconnects
NextDisconnect ==
  \/ Idle("s1") /\ Sends("s1", 1)
  \/ Idle("s2") /\ OnJoin("s2", 1)
  \/ "s2" \in connected /\ OnLeave("s2", 1)
  \/ OnDisconnect("s2")
  \/ Idle("s2") /\ OnConnection("s2")
  \/ \E t \in tasks : OnSendSave(t)
  \/ \E t \in tasks : OnSendEmit(t)
  \/ \E t \in tasks : OnJoinSave(t)
  \/ \E t \in tasks : OnJoinEmit(t)

SpecDisconnect == Init /\ [][NextDisconnect]_vars

\* message ids an edit may name: the first message and an id no message has
EditIds == {1, MaxMsgs + 1}

\* Every event that can be rejected: s3 is no participant, chat 2 does not
\* exist, " " is content that fails validation.  Events are handled one at a
\* time, but a send of s2 on chat 1 may overlap the handler in flight (its
\* push makes the store reject a write below an array index loaded before)
NextErrors ==
  \/ \E s \in {"s2", "s3"}, c \in {1, 2} : tasks = {} /\ OnJoin(s, c)
  \/ \E s \in Sockets, c \in {1, 2} :
       /\ IF s = "s2" /\ c = 1 THEN Idle(s) ELSE tasks = {}
       /\ nextMsgId <= MaxMsgs
       /\ \E content \in {"a", " "} : OnSend(s, c, content, "text")
  \/ \E s \in Participants, c \in {1, 2}, m \in EditIds :
       tasks = {} /\ OnEdit(s, c, m, "b")
  \/ \E s \in Participants, c \in {1, 2} :
       tasks = {} /\ OnDelete(s, c, 1)
  \/ \E s \in {"s2", "s3"}, c \in {1, 2} : tasks = {} /\ OnRead(s, c, NoIds)
  \/ \E t \in tasks : OnJoinSave(t)
  \/ \E t \in tasks : OnJoinEmit(t)
  \/ \E t \in tasks : OnSendSave(t)
  \/ \E t \in tasks : OnSendEmit(t)
  \/ \E t \in tasks : OnEditSave(t)
  \/ \E t \in tasks : OnEditEmit(t)
  \/ \E t \in tasks : OnDeleteSave(t)
  \/ \E t \in tasks : OnDeleteEmit(t)
  \/ \E t \in tasks : OnReadSave(t)
  \/ \E t \in tasks : OnReadEmit(t)

SpecErrors == Init /\ [][NextErrors]_vars

\* mark_read with a list of message ids, events one at a time, as time passes
NextReceipts ==
  \/ tasks = {} /\ \E s \in Participants : Sends(s, 1)
  \/ tasks = {} /\ \E s \in Participants, ids \in SUBSET MessageIds :
                      OnRead(s, 1, [given |-> TRUE, ids |-> ids])
  \/ \E t \in tasks : OnSendSave(t)
  \/ \E t \in tasks : OnSendEmit(t)
  \/ \E t \in tasks : OnReadSave(t)
  \/ \E t \in tasks : OnReadEmit(t)
  \/ tasks = {} /\ now < MaxTime /\ Tick

SpecReceipts == Init /\ [][NextReceipts]_vars

\* an initial message as a client may send it: none, text, whitespace only
InitialMessages == {"", "a", " "}

\* s1 creates chats with u2 and u3, one at a time, while s2 disconnects and
\* connects again; s3 stays connected
NextInvite ==
  \/ /\ tasks = {}
     /\ Len(chats) < MaxChats
     /\ \E u \in {"u2", "u3"}, initial \in InitialMessages :
          /\ initial # "" => nextMsgId <= MaxMsgs
          /\ OnCreate("s1", "p1", u, initial)
  \/ \E t \in tasks : OnCreateInsert(t)
  \/ \E t \in tasks : OnCreateInitial(t)
  \/ \E t \in tasks : OnCreateEmit(t)
  \/ OnDisconnect("s2")
  \/ OnConnection("s2")

SpecInvite == InitEmpty /\ [][NextInvite]_vars

\* Presence and receipts on chat 1, events one at a time: every socket, s3
\* of the non-participant u3 included, types, leaves, joins and marks read;
\* s1 sends and edits and deletes its first message
NextPresence ==
  \/ tasks = {} /\ \E s \in Sockets, isTyping \in BOOLEAN : OnTyping(s, 1, isTyping)
  \/ tasks = {} /\ \E s \in Sockets : OnLeave(s, 1)
  \/ tasks = {} /\ \E s \in Sockets : OnJoin(s, 1)
  \/ tasks = {} /\ \E s \in Sockets : OnRead(s, 1, NoIds)
  \/ tasks = {} /\ Sends("s1", 1)
  \/ tasks = {} /\ OnEdit("s1", 1, 1, "b")
  \/ tasks = {} /\ OnDelete("s1", 1, 1)
  \/ \E t \in tasks : OnJoinSave(t)
  \/ \E t \in tasks : OnJoinEmit(t)
  \/ \E t \in tasks : OnReadSave(t)
  \/ \E t \in tasks : OnReadEmit(t)
  \/ \E t \in tasks : OnSendSave(t)
  \/ \E t \in tasks : OnSendEmit(t)
  \/ \E t \in tasks : OnEditSave(t)
  \/ \E t \in tasks : OnEditEmit(t)
  \/ \E t \in tasks : OnDeleteSave(t)
  \/ \E t \in tasks : OnDeleteEmit(t)

SpecPresence == Init /\ [][NextPresence]_vars

----------------
(* Sending on a chat that is not active *)

\* the events of a step that are new_message broadcasts
NewMessageEvents(evs) == {i \in DOMAIN evs : evs[i].ev = "new_message"}

\* C1: a send on a chat whose status is not 'active' fails: while the chat is
\* not active no step changes its messages, lastMessage, lastActivity or
\* autoCloseAt, and no new_message is broadcast.
C1_SendOnInactiveChatFails ==
  [][chats[1].status # "active" =>
       /\ chats'[1].messages = chats[1].messages
       /\ chats'[1].lastMessage = chats[1].lastMessage
       /\ chats'[1].lastActivity = chats[1].lastActivity
       /\ chats'[1].autoCloseAt = chats[1].autoCloseAt
       /\ NewMessageEvents(emitted') = {}]_vars

----------------------------------------------------------------------------
(* The sweeper *)

\* C2: a run of cleanupExpiredContent leaves every chat that was active with
\* autoCloseAt earlier than now closed, with isResolved set and resolvedAt set.
C2_SweeperClosesExpiredChats ==
  [][CleanupExpiredContent =>
       \A c \in FindExpired(chats, now) :
          /\ chats'[c].status = "closed"
          /\ chats'[c].isResolved
          /\ chats'[c].resolvedAt # NoDate]_vars

----------------------------------------------------------------------------
(* create_chat *)

\* the chats of the collection that the lookup for (postId, {a, b}) matches
MatchesOf(coll, postId, a, b) ==
  {c \in DOMAIN coll : Matches(coll[c], postId, {a, b})}

\* C3: in every reachable state, also when create_chat events interleave, at
\* most one chat that is not archived exists for a post and a pair of users.
C3_OneChatPerPostAndPair ==
  \A c, d \in DOMAIN chats :
     (/\ chats[c].post = chats[d].post
      /\ UsersOf(chats[c]) = UsersOf(chats[d])
      /\ chats[c].status # "archived"
      /\ chats[d].status # "archived") => c = d

\* C4: create_chat events handled one after the other: an event for a post and
\* a pair that a stored chat already matches, in either order of the pair, is
\* answered at once with the id of that chat and stores nothing, and the
\* event that stored the chat is answered with that same id, the only match.
C4_CreateTwiceSameChat ==
  [][/\ \A s \in Participants, u \in Users, initial \in {"", "a"} :
          (/\ MatchesOf(chats, "p1", UserOf(s), u) # {}
           /\ OnCreate(s, "p1", u, initial))
          => /\ chats' = chats
             /\ tasks' = tasks
             /\ \E c \in MatchesOf(chats, "p1", UserOf(s), u) :
                  /\ \A d \in MatchesOf(chats, "p1", UserOf(s), u) : c <= d
                  /\ emitted' = <<Event("chat_created", {s}, c, 0, "")>>
     /\ \A t \in tasks :
          OnCreateInsert(t) => Len(chats') = Len(chats) + 1
     /\ \A t \in tasks :
          OnCreateEmit(t)
          => /\ emitted'[2] = Event("chat_created", {t.sock}, t.chat, 0, "")
             /\ t.chat \in MatchesOf(chats', t.post, UserOf(t.sock), t.other)
             /\ \A d \in MatchesOf(chats', t.post, UserOf(t.sock), t.other) :
                  t.chat <= d
             /\ t.other # UserOf(t.sock)
                  => MatchesOf(chats', t.post, UserOf(t.sock), t.other) = {t.chat}
    ]_vars

\* s2 asked for the chat with u1 that s1 had created with u2 and got its id
C4_Witness ==
  /\ Len(chats) = 1
  /\ chats[1].participants[1].user = "u1"
  /\ chats[1].participants[2].user = "u2"
  /\ tasks = {}
  /\ emitted = <<Event("chat_created", {"s2"}, 1, 0, "")>>

----------------------------------------------------------------------------
(* new_message deliveries *)

\* C5: two connections that stay in the room of a chat during a sequence of
\* sends receive the same sequence of new_message events: the same messages in
\* the same order, none twice.
C5_SameNewMessageSequence ==
  \A s, r \in InRoom(1) :
     /\ received[s] = received[r]
     /\ \A i, j \in DOMAIN received[s] :
          received[s][i] = received[s][j] => i = j

\* both participants got the two messages, sent while the other send was in
\* flight, in the order in which the handlers broadcast them
C5_Witness ==
  /\ InRoom(1) = {"s1", "s2"}
  /\ received["s1"] = <<2, 1>>
  /\ received["s2"] = <<2, 1>>

----------------------------------------------------------------------------
(* The messages of a chat are append-only *)

\* C7: a message appended to a chat stays in the chat's messages at its
\* position in every later state, whatever send, edit, delete, mark_read,
\* join, close or sweeper steps interleave; the message of a send whose save
\* succeeded is stored.
C7_AppendedMessagesStay ==
  [][/\ Len(chats'[1].messages) >= Len(chats[1].messages)
     /\ \A i \in DOMAIN chats[1].messages :
          chats'[1].messages[i].id = chats[1].messages[i].id
     /\ \A t \in tasks' :
          (t.op = "send" /\ t.stage = "saved") => MsgIndex(chats'[1], t.msg) # 0
    ]_vars

\* an edit, delete or read is about to be written from a document loaded
\* before an append that has been committed since
C7_Witness ==
  \E t \in tasks :
     /\ t.op \in {"edit", "delete", "read", "join"}
     /\ t.stage = "sent"
     /\ Positional(t.delta.old, t.delta.new)
     /\ Len(t.delta.old.messages) < Len(chats[1].messages)

----------------------------------------------------------------------------
(* edit_message *)

\* C8: a successful edit by the sender leaves originalContent equal to the
\* content the message had before its first edit: the first edit stores the
\* content it replaces, every further edit changes content and keeps
\* originalContent.
C8_OriginalContentKept ==
  [][/\ \A t \in tasks :
          (OnEditSave(t) /\ emitted' = <<>>)
          => LET i == MsgIndex(chats[t.chat], t.mid)
                 old == chats[t.chat].messages[i]
                 new == chats'[t.chat].messages[i]
             IN /\ new.content = t.text
                /\ new.isEdited
                /\ new.originalContent =
                     IF old.isEdited THEN old.originalContent ELSE old.content
     /\ \A i \in DOMAIN chats'[1].messages :
          chats'[1].messages[i].isEdited
             => chats'[1].messages[i].originalContent \in Contents
    ]_vars

\* message 1, sent as "a", shows "c" after an edit and keeps "a" as its
\* original content
C8_Witness ==
  /\ Len(chats[1].messages) >= 1
  /\ chats[1].messages[1].isEdited
  /\ chats[1].messages[1].content = "c"
  /\ chats[1].messages[1].originalContent = "a"
  /\ emitted = <<Event("message_edited", {"s1", "s2"}, 1,
                       chats[1].messages[1].id, "c")>>

\* the three ways editMessage throws
EditErrors ==
  {"Message not found", "Not authorized to edit this message",
   "Cannot edit deleted message"}

\* C9: an edit that fails (unknown message id, requester not the sender,
\* deleted message) leaves the chat unchanged, sends one error to the
\* requesting connection only and leaves no handler that would broadcast
\* message_edited.
C9_FailingEditIsNoOp ==
  [][\A s \in Sockets, m \in MessageIds, content \in NewContents :
       (/\ EditMessage(chats[1], m, content, UserOf(s), now).err \in EditErrors
        /\ OnEdit(s, 1, m, content))
       => /\ chats' = chats
          /\ tasks' = tasks
          /\ emitted' = <<Event("error", {s}, 1, 0,
                                EditMessage(chats[1], m, content, UserOf(s), now).err)>>
    ]_vars

\* s1 was refused the edit of its deleted message
C9_Witness ==
  /\ \E i \in DOMAIN chats[1].messages :
        chats[1].messages[i].sender = "u1" /\ chats[1].messages[i].isDeleted
  /\ tasks = {}
  /\ emitted = <<Event("error", {"s1"}, 1, 0, "Cannot edit deleted message")>>

----------------------------------------------------------------------------
(* delete_message *)

\* C10: deleting a message again changes nothing: once a message is deleted
\* no later delete changes any of its fields, deletedAt included.
C10_DeleteIsIdempotent ==
  [][\A i \in DOMAIN chats[1].messages :
       chats[1].messages[i].isDeleted
          => chats'[1].messages[i] = chats[1].messages[i]]_vars

----------------------------------------------------------------------------
(* Unread counts *)

\* the messages of doc that count as unread for userId
UnreadFor(doc, userId) ==
  {i \in DOMAIN doc.messages :
     /\ ~doc.messages[i].isDeleted
     /\ doc.messages[i].sender # userId
     /\ ~doc.messages[i].isRead}

\* C11: getUnreadCount(p) is the number of messages that are not deleted, not
\* sent by p and not read, so never more than the messages of the others; and
\* a markMessagesAsRead(p) without message ids, once saved, leaves it 0.
C11_UnreadCount ==
  [][/\ \A u \in Users :
          /\ GetUnreadCount(chats'[1], u) = Cardinality(UnreadFor(chats'[1], u))
          /\ GetUnreadCount(chats'[1], u) <=
               Cardinality({i \in DOMAIN chats'[1].messages :
                              chats'[1].messages[i].sender # u})
     /\ \A t \in tasks :
          (OnReadSave(t) /\ emitted' = <<>> /\ t.ids = NoIds)
          => GetUnreadCount(chats'[1], UserOf(t.sock)) = 0
    ]_vars

\* s2 had two unread messages of u1 and its mark_read without ids was saved
C11_Witness ==
  /\ Len(chats[1].messages) = 2
  /\ \A i \in DOMAIN chats[1].messages :
        chats[1].messages[i].sender = "u1" /\ chats[1].messages[i].isRead
  /\ \E t \in tasks : t.sock = "s2" /\ t.op = "read" /\ t.stage = "saved" /\ t.ids = NoIds
  /\ GetUnreadCount(chats[1], "u2") = 0

----------------------------------------------------------------------------
(* Participants *)

\* C12: in every reachable state no user appears more than once in the
\* participants of a chat, whatever create_chat (with any participantId, the
\* creator's own included), addParticipant and removeParticipant calls led to it.
C12_ParticipantsUnique ==
  \A c \in DOMAIN chats :
     \A i, j \in DOMAIN chats[c].participants :
        chats[c].participants[i].user = chats[c].participants[j].user => i = j

----------------------------------------------------------------------------
(* closeChat *)

\* C13: closing a closed chat changes nothing: once a chat is closed, no later
\* close, with or without a closedBy principal, changes the chat, so
\* resolvedAt and resolvedBy keep the values the first close wrote.
C13_CloseIsIdempotent ==
  [][chats[1].status = "closed" =>
       /\ chats'[1].resolvedAt = chats[1].resolvedAt
       /\ chats'[1].resolvedBy = chats[1].resolvedBy
       /\ chats'[1].isResolved = chats[1].isResolved
       /\ chats'[1].status = chats[1].status]_vars

----------------------------------------------------------------------------
(* status *)

\* C14: a chat that is closed stays closed: no step of send, edit, delete,
\* mark_read, join, leave, addParticipant, removeParticipant, create_chat or
\* the sweeper sets its status back to 'active'.
C14_ClosedStaysClosed ==
  [][\A c \in DOMAIN chats :
       chats[c].status = "closed" => chats'[c].status = "closed"]_vars

\* a send was saved and broadcast on the closed chat, which is still closed
C14_Witness ==
  /\ chats[1].status = "closed"
  /\ Len(chats[1].messages) >= 1
  /\ emitted = <<Event("new_message", InRoom(1), 1,
                       chats[1].messages[Len(chats[1].messages)].id, "")>>

----------------------------------------------------------------------------
(* addMessage *)

\* the last element of the messages of doc
LastOf(doc) == doc.messages[Len(doc.messages)]

\* C15: when the save of a send succeeds at time now, the new message is the
\* last element of messages and is unread, lastMessage holds that message's
\* content, sender and type, lastActivity = now and autoCloseAt = now + 7
\* days; and whenever the chat has messages, also after interleaved sends,
\* lastMessage.sender and lastMessage.messageType are those of the last element.
C15_AppendUpdatesSnapshot ==
  [][/\ \A t \in tasks :
          (OnSendSave(t) /\ emitted' = <<>>)
          => /\ LastOf(chats'[1]).id = t.msg
             /\ ~LastOf(chats'[1]).isRead
             /\ chats'[1].lastMessage.content = LastOf(chats'[1]).content
             /\ chats'[1].lastMessage.sender = LastOf(chats'[1]).sender
             /\ chats'[1].lastMessage.messageType = LastOf(chats'[1]).messageType
             /\ chats'[1].lastActivity = now
             /\ chats'[1].autoCloseAt = now + AutoCloseWindow
     /\ Len(chats'[1].messages) > 0
          => /\ chats'[1].lastMessage.sender = LastOf(chats'[1]).sender
             /\ chats'[1].lastMessage.messageType = LastOf(chats'[1]).messageType
    ]_vars

----------------------------------------------------------------------------
(* Authorization of join_chat and send_message *)

\* userId has an entry in the participants of doc with isActive set
ActiveIn(doc, userId) ==
  \E i \in DOMAIN doc.participants :
     doc.participants[i].user = userId /\ doc.participants[i].isActive

\* userId has an entry in the participants of doc, none of them active
RemovedFrom(doc, userId) ==
  /\ \E i \in DOMAIN doc.participants : doc.participants[i].user = userId
  /\ ~ActiveIn(doc, userId)

\* C16: a join_chat by a user with no participant entry, or with an entry
\* whose isActive is false, is rejected: the rooms are as before, no message
\* is marked read, no user_online is broadcast and the one event emitted is an
\* error to the requesting socket.
C16_JoinRejected ==
  [][\A s \in Sockets :
       (~ActiveIn(chats[1], UserOf(s)) /\ OnJoin(s, 1))
       => /\ rooms' = rooms
          /\ chats' = chats
          /\ tasks' = tasks
          /\ emitted' = <<Event("error", {s}, 1, 0,
                                "Not authorized to join this chat")>>]_vars

\* s2 left the room, u2 was removed, and s2's join was refused while a
\* message of u1 is unread
C16_Witness ==
  /\ RemovedFrom(chats[1], "u2")
  /\ 1 \notin rooms["s2"]
  /\ \E i \in DOMAIN chats[1].messages :
        chats[1].messages[i].sender = "u1" /\ ~chats[1].messages[i].isRead
  /\ emitted = <<Event("error", {"s2"}, 1, 0, "Not authorized to join this chat")>>


\* C19 as stated: a participant who joined the room of a chat and is then
\* removed (isActive set to false) can still send: the send_message of its
\* socket, still in the room, is accepted and goes on to the save.
C19_RemovedParticipantStillSends ==
  [][\A s \in Sockets, content \in Contents :
       (/\ 1 \in rooms[s]
        /\ RemovedFrom(chats[1], UserOf(s))
        /\ OnSend(s, 1, content, "text"))
       => /\ \E t \in tasks' : t.sock = s /\ t.op = "send"
          /\ emitted' = <<>>]_vars

\* C19 as amended: membership is checked on every send: the send_message of a
\* socket whose user was removed, though the socket is still in the room, is
\* refused with an error to that socket only and stores nothing.
C19_RemovedParticipantCannotSend ==
  [][\A s \in Sockets, content \in Contents :
       (/\ 1 \in rooms[s]
        /\ RemovedFrom(chats[1], UserOf(s))
        /\ OnSend(s, 1, content, "text"))
       => /\ chats' = chats
          /\ tasks' = tasks
          /\ nextMsgId' = nextMsgId
          /\ received' = received
          /\ emitted' = <<Event("error", {s}, 1, 0,
                                "Not authorized to send messages in this chat")>>]_vars

\* s2, still in the room after u2 was removed, was refused a send
C19_Witness ==
  /\ 1 \in rooms["s2"]
  /\ RemovedFrom(chats[1], "u2")
  /\ tasks = {}
  /\ emitted = <<Event("error", {"s2"}, 1, 0,
                       "Not authorized to send messages in this chat")>>

----------------------------------------------------------------------------
(* A failed save *)

\* C17: when the save of an event fails, the rooms are as they were before
\* the event and nothing is broadcast: a join_chat of a socket outside the
\* room whose markMessagesAsRead save is rejected leaves the socket outside
\* the room, with one error emitted to that socket.
C17_FailedJoinLeavesRoomAlone ==
  [][\A t \in tasks :
       (t.op = "join" /\ OnJoinSave(t) /\ emitted' # <<>>)
       => /\ t.chat \notin rooms'[t.sock]
          /\ emitted' = <<Event("error", {t.sock}, t.chat, 0, "Failed to join chat")>>
    ]_vars

----------------------------------------------------------------------------
(* Broadcasts follow the write *)

\* the sockets of the user who sent message m of doc
SocketsOfSender(doc, m) ==
  {s \in Sockets : UserOf(s) = doc.messages[MsgIndex(doc, m)].sender}

----------------------------------------------------------------------------
(* The events of one connection *)

\* C20: the events of one connection are handled one after the other, each
\* handler completing before the next takes a step, so the sends of one
\* connection are appended and broadcast in the order in which they were
\* sent (message ids are given in the order the events arrive).
C20_OneConnectionInOrder ==
  /\ \A i, j \in DOMAIN chats[1].messages :
        (i < j /\ chats[1].messages[i].sender = chats[1].messages[j].sender)
           => chats[1].messages[i].id < chats[1].messages[j].id
  /\ \A s \in Sockets :
        \A i, j \in DOMAIN received[s] : i < j => received[s][i] < received[s][j]

----------------------------------------------------------------------------
(* Disconnection *)

\* the sockets that have disconnected
Disconnected == Sockets \ connected

----------------------------------------------------------------------------
(* A failure during a sweep *)

\* C22: a failure in a run of cleanupExpiredContent, in the loop that closes
\* the chats or in the step before it, is logged and does not keep the run
\* from closing the expired chats it has not failed on: a run that logs a
\* failure of the step before the loop still leaves every chat that was
\* active with autoCloseAt earlier than now closed.
C22_SweepGoesOnAfterFailure ==
  [][(CleanupExpiredContent /\ emitted' = <<CleanupError>>)
       => \A c \in DOMAIN chats :
             (chats[c].status = "active" /\ chats[c].autoCloseAt < now)
                => chats'[c].status = "closed"]_vars

----------------------------------------------------------------------------
(* Error events *)

\* the step emitted one event, an error, to socket s alone
OneErrorTo(s) ==
  /\ Len(emitted') = 1
  /\ emitted'[1].ev = "error"
  /\ emitted'[1].to = {s}

\* the step started a handler's write and emitted nothing
Accepted(s) ==
  /\ emitted' = <<>>
  /\ \E t \in tasks' \ tasks : t.sock = s /\ t.stage = "sent"

\* the step changed nothing but what it emitted
Rejected(s) ==
  /\ OneErrorTo(s)
  /\ chats' = chats
  /\ tasks' = tasks

\* What the first step of the handler of event op of socket s on chat c
\* leaves alone (it holds of every such step and is tested before the
\* handler's own formula): the stored chats and the handlers in flight, to
\* which it adds at most its own; what it emits is about c
FirstStepOf(s, c, op) ==
  /\ chats' = chats
  /\ tasks \subseteq tasks'
  /\ \A t \in tasks' \ tasks : t.sock = s /\ t.chat = c /\ t.op = op
  /\ \A i \in DOMAIN emitted' : emitted'[i].chat = c

----------------------------------------------------------------------------
(* findUserChats *)

\* C24: findUserChats(p, status) returns exactly the chats with that status
\* in which p's own participant entry is active, latest lastMessage.timestamp
\* first; a chat in which p's entry is inactive is not returned, also when
\* another participant of it is active.
C24_FindUserChatsOwnActive ==
  \A u \in Users, status \in {"active", "closed"} :
     LET found == FindUserChats(chats, u, status) IN
     /\ {found[i] : i \in DOMAIN found} =
          {c \in DOMAIN chats : chats[c].status = status /\ ActiveIn(chats[c], u)}
     /\ \A i, j \in DOMAIN found :
          i < j => chats[found[i]].lastMessage.timestamp
                     >= chats[found[j]].lastMessage.timestamp

----------------------------------------------------------------------------
(* mark_read with message ids *)

\* C25: a mark_read with a list of message ids, once saved, has set isRead
\* on the listed messages of the chat that the reader did not send; every
\* other message is as it was, and so is the readAt of a listed message that
\* was read already; the reader's lastSeen is the time of the event; and
\* messages_read goes to the other sockets in the room, not to the requester.
C25_MarkReadWithIds ==
  [][\A t \in tasks :
       /\ (OnReadSave(t) /\ emitted' = <<>> /\ t.ids.given)
            => /\ \A i \in DOMAIN chats[1].messages :
                    LET old == chats[1].messages[i]
                        new == chats'[1].messages[i]
                    IN IF old.id \in t.ids.ids /\ old.sender # UserOf(t.sock)
                       THEN /\ new.isRead
                            /\ old.isRead => new.readAt = old.readAt
                       ELSE new = old
               /\ chats'[1].participants[PartIndex(chats[1], UserOf(t.sock))].lastSeen
                    = now
       /\ OnReadEmit(t)
            => /\ emitted' = <<Event("messages_read", InRoom(1) \ {t.sock}, 1, 0,
                                      UserOf(t.sock))>>
               /\ t.sock \notin emitted'[1].to
    ]_vars

----------------------------------------------------------------------------
(* create_chat when no chat exists *)

\* C26: a create_chat that finds no chat stores a new active chat with the
\* creator and the other user as active participants and, when an initial
\* message was given, goes on to append it; the handler then puts the
\* creating socket, and no other, in the room of the chat and emits new_chat
\* to the sockets the other user has connected, to none if there is none.
C26_CreateStoresJoinsNotifies ==
  [][\A t \in tasks :
       /\ OnCreateInsert(t)
            => /\ Len(chats') = Len(chats) + 1
               /\ chats'[Len(chats')].status = "active"
               /\ chats'[Len(chats')].participants =
                    <<[user |-> UserOf(t.sock), lastSeen |-> now, isActive |-> TRUE],
                      [user |-> t.other, lastSeen |-> now, isActive |-> TRUE]>>
               /\ rooms' = rooms
               /\ \E n \in tasks' :
                    /\ n.sock = t.sock /\ n.op = "create" /\ n.chat = Len(chats')
                    /\ n.stage = IF t.text # "" THEN "initial" ELSE "saved"
       /\ OnCreateInitial(t)
            => /\ emitted' = <<>>
               /\ Len(chats'[t.chat].messages) = 1
               /\ chats'[t.chat].messages[1].sender = UserOf(t.sock)
               /\ chats'[t.chat].messages[1].content = Trim(t.text)
       /\ OnCreateEmit(t)
            => /\ rooms' = [rooms EXCEPT ![t.sock] = @ \cup {t.chat}]
               /\ emitted'[1] = Event("new_chat",
                                      {s \in connected : UserOf(s) = t.other},
                                      t.chat, 0, "")
               /\ emitted'[2] = Event("chat_created", {t.sock}, t.chat, 0, "")
    ]_vars

----------------------------------------------------------------------------
(* Events of a user who is no active participant *)

\* C27: no send_message, edit_message, delete_message or mark_read of a user
\* who is not an active participant of a chat changes the stored chat: the
\* write of such a handler leaves the chat's messages, participants,
\* lastActivity and status as they were.
C27_OutsiderChangesNothing ==
  [][\A t \in tasks :
       (/\ t.chat \in DOMAIN chats
        /\ ~ActiveIn(chats[t.chat], UserOf(t.sock))
        /\ OnSendSave(t) \/ OnEditSave(t) \/ OnDeleteSave(t) \/ OnReadSave(t))
       => /\ chats'[t.chat].messages = chats[t.chat].messages
          /\ chats'[t.chat].participants = chats[t.chat].participants
          /\ chats'[t.chat].lastActivity = chats[t.chat].lastActivity
          /\ chats'[t.chat].status = chats[t.chat].status
    ]_vars

----------------------------------------------------------------------------
(* Events of a socket that is not in the room *)

\* the events about a chat that report presence, receipts and changes
RoomEvents ==
  {"user_online", "user_offline", "user_typing", "messages_read",
   "message_edited", "message_deleted"}

\* the step emitted none of the room's events to any socket
NoRoomEvent ==
  \A i \in DOMAIN emitted' :
     emitted'[i].ev \in RoomEvents => emitted'[i].to = {}

\* C28: the room of a chat gets user_online, user_offline, user_typing,
\* messages_read, message_edited and message_deleted only from events of
\* sockets that are in the room: a typing, leave_chat, mark_read,
\* edit_message or delete_message of a socket outside the room broadcasts
\* nothing into it.
C28_OnlyMembersBroadcast ==
  [][/\ \A s \in Sockets :
          (/\ 1 \notin rooms[s]
           /\ OnLeave(s, 1) \/ \E isTyping \in BOOLEAN : OnTyping(s, 1, isTyping))
          => NoRoomEvent
     /\ \A t \in tasks :
          (/\ 1 \notin rooms[t.sock]
           /\ OnReadEmit(t) \/ OnEditEmit(t) \/ OnDeleteEmit(t))
          => NoRoomEvent
    ]_vars

----------------------------------------------------------------------------
(* The inactivity timer *)

\* C30: only an appended message moves the inactivity timer: the save of an
\* edit, a delete or a mark_read leaves lastActivity, autoCloseAt and
\* lastMessage as they were, so autoCloseAt = lastActivity + 7 days in every
\* state.
C30_OnlySendsMoveTheTimer ==
  [][/\ \A t \in tasks :
          (OnEditSave(t) \/ OnDeleteSave(t) \/ OnReadSave(t))
          => /\ chats'[t.chat].lastActivity = chats[t.chat].lastActivity
             /\ chats'[t.chat].autoCloseAt = chats[t.chat].autoCloseAt
             /\ chats'[t.chat].lastMessage = chats[t.chat].lastMessage
     /\ \A c \in DOMAIN chats' :
          chats'[c].autoCloseAt = chats'[c].lastActivity + AutoCloseWindow
    ]_vars

====
